---- MODULE Spec2Model ----
(***************************************************************************)
(* PyDodo aircraft separation: pydodo/distance_measures.py and the guards  *)
(* of pydodo/utils.py.                                                     *)
(*                                                                         *)
(* Numbers.  A Python float is a value [kind, args]: Num(n) is the number  *)
(* n, NaN is the IEEE not-a-number (every comparison with it is false).    *)
(* Lengths are whole metres, angles whole degrees, the flattening is in    *)
(* units of 1e-9, sines and cosines are in hundredths.  Results of the     *)
(* external libraries (geopy's geodesic and great_circle, scipy's          *)
(* euclidean) are uninterpreted terms over their arguments.                *)
(***************************************************************************)
EXTENDS Integers, Sequences, FiniteSets, TLC

\* ---------------------------------------------------------------- bounds
\* Longest id list a caller passes.
MaxLen == 2

\* ------------------------------------------------------------- constants
\* distance.ELLIPSOIDS['WGS-84'] major semiaxis, times 1000: metres.
EARTH_RADIUS == 6378137
\* distance.ELLIPSOIDS['WGS-84'] flattening 1/298.257223563, in units of 1e-9.
ellipse_flattening == 3352811
\* SCALE_FEET_TO_METRES = 0.3048 = SCALE_FEET_TO_METRES / SCALE_DENOMINATOR.
SCALE_FEET_TO_METRES == 3048
SCALE_DENOMINATOR == 10000

\* ---------------------------------------------------------------- values
Num(n) == [kind |-> "num", args |-> <<n>>]
NaN == [kind |-> "nan", args |-> <<>>]
PyNone == [kind |-> "None", args |-> <<>>]
IsNum(x) == x.kind = "num"
IsNaN(x) == x.kind = "nan"
Val(x) == x.args[1]
Abs(n) == IF n < 0 THEN -n ELSE n

\* An outcome of a call: a returned value, or a raised exception.
Return(v) == [err |-> "", val |-> v]
Raise(e) == [err |-> e, val |-> PyNone]
Raised(o) == o.err # ""

\* ------------------------------------------------------ validation guards
\* utils._check_latitude: assert abs(lat) <= 90 (false for NaN).
check_latitude(lat) == IsNum(lat) /\ Abs(Val(lat)) <= 90

\* utils._check_longitude: assert -180 <= lon < 180 (false for NaN).
check_longitude(lon) == IsNum(lon) /\ -180 <= Val(lon) /\ Val(lon) < 180

\* utils._validate_latitude, _validate_longitude: the guards distance_measures
\* calls; latitude in [-90, 90], longitude in [-180, 180).
validate_latitude(lat) == check_latitude(lat)
validate_longitude(lon) == check_longitude(lon)

\* utils._validate_is_positive(val, param_name): altitude must be >= 0,
\* radius, major_semiaxis and flattening must be > 0 (false for NaN).
validate_is_positive(val, param_name) ==
    /\ IsNum(val)
    /\ IF param_name = "altitude" THEN Val(val) >= 0 ELSE Val(val) > 0

\* utils._check_id: a string of length >= 3 (bluesky) or >= 1 (otherwise).  The
\* ids of the model are the empty string, invalid under both, and strings of
\* three characters, valid under both.
check_id(aircraft_id) == aircraft_id # ""

\* utils._validate_id_list: a non-empty list whose every element is a valid id.
validate_id_list(id_list) ==
    /\ Len(id_list) >= 1
    /\ \A i \in 1..Len(id_list) : check_id(id_list[i])

\* ------------------------------------------------------------ primitives
\* np.cos(np.deg2rad(d)) and np.sin(np.deg2rad(d)) in hundredths, for the
\* degrees the model uses.
Degrees == {-181, -180, -91, -90, 0, 45, 90, 91, 180}
Cos100 == [d \in Degrees |->
    CASE d = -181 -> -100 [] d = -180 -> -100 [] d = -91 -> -2
      [] d = -90 -> 0 [] d = 0 -> 100 [] d = 45 -> 71 [] d = 90 -> 0
      [] d = 91 -> -2 [] d = 180 -> -100]
Sin100 == [d \in Degrees |->
    CASE d = -181 -> 2 [] d = -180 -> 0 [] d = -91 -> -100
      [] d = -90 -> -100 [] d = 0 -> 0 [] d = 45 -> 71 [] d = 90 -> 100
      [] d = 91 -> 100 [] d = 180 -> 0]

\* geodesic_distance: six guards, then geopy's distance.geodesic(...).meters.
geodesic_distance(from_lat, from_lon, to_lat, to_lon, major_semiaxis, flattening) ==
    IF /\ validate_latitude(from_lat)
       /\ validate_longitude(from_lon)
       /\ validate_latitude(to_lat)
       /\ validate_longitude(to_lon)
       /\ validate_is_positive(major_semiaxis, "major_semiaxis")
       /\ validate_is_positive(flattening, "flattening")
    THEN Return([kind |-> "geodesic",
                 args |-> <<Val(from_lat), Val(from_lon), Val(to_lat), Val(to_lon),
                            Val(major_semiaxis), Val(flattening)>>])
    ELSE Raise("AssertionError")

\* great_circle_distance: five guards, then geopy's distance.great_circle.
great_circle_distance(from_lat, from_lon, to_lat, to_lon, radius) ==
    IF /\ validate_latitude(from_lat)
       /\ validate_longitude(from_lon)
       /\ validate_latitude(to_lat)
       /\ validate_longitude(to_lon)
       /\ validate_is_positive(radius, "radius")
    THEN Return([kind |-> "great_circle",
                 args |-> <<Val(from_lat), Val(from_lon), Val(to_lat), Val(to_lon),
                            Val(radius)>>])
    ELSE Raise("AssertionError")

\* A variant of vertical_distance without the abs: from_alt - to_alt.
vertical_distance_signed(from_alt, to_alt) ==
    IF /\ validate_is_positive(from_alt, "altitude")
       /\ validate_is_positive(to_alt, "altitude")
    THEN Return(Num(Val(from_alt) - Val(to_alt)))
    ELSE Raise("AssertionError")

\* vertical_distance: two guards, then abs(from_alt - to_alt).
vertical_distance(from_alt, to_alt) ==
    IF /\ validate_is_positive(from_alt, "altitude")
       /\ validate_is_positive(to_alt, "altitude")
    THEN Return(Num(Abs(Val(from_alt) - Val(to_alt))))
    ELSE Raise("AssertionError")

\* convert_lat_lon_to_cartesian: no guard; R = radius + alt and the spherical
\* to cartesian formulas.  A NaN argument makes every coordinate NaN.
convert_lat_lon_to_cartesian(lat, lon, alt, radius) ==
    IF IsNum(lat) /\ IsNum(lon) /\ IsNum(alt) /\ IsNum(radius)
    THEN LET R == Val(radius) + Val(alt)
             r == (R * Cos100[Val(lat)]) \div 100
             x == (r * Cos100[Val(lon)]) \div 100
             y == (r * Sin100[Val(lon)]) \div 100
             z == (R * Sin100[Val(lat)]) \div 100
         IN  Return([kind |-> "tuple", args |-> <<x, y, z>>])
    ELSE Return([kind |-> "tuple_nan", args |-> <<>>])

\* euclidean_distance: seven guards, two projections, scipy's euclidean.
euclidean_distance(from_lat, from_lon, from_alt, to_lat, to_lon, to_alt, radius) ==
    IF /\ validate_latitude(from_lat)
       /\ validate_longitude(from_lon)
       /\ validate_is_positive(from_alt, "altitude")
       /\ validate_latitude(to_lat)
       /\ validate_longitude(to_lon)
       /\ validate_is_positive(to_alt, "altitude")
       /\ validate_is_positive(radius, "radius")
    THEN LET from_cartesian ==
                 convert_lat_lon_to_cartesian(from_lat, from_lon, from_alt, radius).val
             to_cartesian ==
                 convert_lat_lon_to_cartesian(to_lat, to_lon, to_alt, radius).val
         IN  Return([kind |-> "euclidean",
                     args |-> from_cartesian.args \o to_cartesian.args])
    ELSE Raise("AssertionError")

\* get_distance: the if/elif chain over measure; no branch matches an
\* unrecognized measure and the function falls off its end, returning None.
get_distance(from_pos, to_pos, measure, radius, flattening) ==
    IF measure = "geodesic"
    THEN geodesic_distance(from_pos.latitude, from_pos.longitude,
                           to_pos.latitude, to_pos.longitude, radius, flattening)
    ELSE IF measure = "great_circle"
    THEN great_circle_distance(from_pos.latitude, from_pos.longitude,
                               to_pos.latitude, to_pos.longitude, radius)
    ELSE IF measure = "vertical"
    THEN vertical_distance(from_pos.altitude, to_pos.altitude)
    ELSE IF measure = "euclidean"
    THEN euclidean_distance(from_pos.latitude, from_pos.longitude, from_pos.altitude,
                            to_pos.latitude, to_pos.longitude, to_pos.altitude, radius)
    ELSE Return(PyNone)

\* ----------------------------------------------------- separation engine
Range(s) == {s[i] : i \in DOMAIN s}

\* An id argument as the caller passes it: a list of strings, one string
\* (val holds it alone) or None.
ListArg(l) == [tag |-> "list", val |-> l]
StrArg(id) == [tag |-> "str", val |-> <<id>>]
NoneArg == [tag |-> "None", val |-> <<>>]

\* get_separation up to its call of get_pos_df: the assert on measure, the
\* default of to_aircraft_id (from_aircraft_id.copy(): a str has no copy
\* method) and the coercion of a scalar to a one-element list.
get_separation_args(from_aircraft_id, to_aircraft_id, measure) ==
    IF measure \notin {"geodesic", "great_circle", "vertical", "euclidean"}
    THEN Raise("AssertionError")
    ELSE IF to_aircraft_id.tag = "None" /\ from_aircraft_id.tag # "list"
    THEN Raise("AttributeError")
    ELSE Return([from |-> from_aircraft_id.val,
                 to |-> IF to_aircraft_id.tag = "None"
                        THEN from_aircraft_id.val
                        ELSE to_aircraft_id.val])

\* All orders of a finite set: list(set(...)) fixes none.
RECURSIVE Orderings(_)
Orderings(S) ==
    IF S = {} THEN {<<>>}
    ELSE UNION {{<<x>> \o t : t \in Orderings(S \ {x})} : x \in S}

\* A variant of unique_ids without the set: from_aircraft_id + to_aircraft_id.
unique_ids_concatenated(from_aircraft_id, to_aircraft_id) ==
    {from_aircraft_id \o to_aircraft_id}

\* ids = list(set(from_aircraft_id + to_aircraft_id)): the lists it may be.
unique_ids(from_aircraft_id, to_aircraft_id) ==
    Orderings(Range(from_aircraft_id \o to_aircraft_id))

\* get_pos_df up to its call of all_positions: the two id list guards, then ids.
get_pos_df_ids(from_aircraft_id, to_aircraft_id) ==
    IF validate_id_list(from_aircraft_id) /\ validate_id_list(to_aircraft_id)
    THEN Return(unique_ids(from_aircraft_id, to_aircraft_id))
    ELSE Raise("AssertionError")

\* A row of NaN: what reindex gives an id the table does not hold.
NaNRow(id) == [id |-> id, latitude |-> NaN, longitude |-> NaN, altitude |-> NaN]

\* all_pos.reindex(ids): one row per element of ids, in that order.
reindex(table, id_list) ==
    [i \in 1..Len(id_list) |->
        IF id_list[i] \in DOMAIN table
        THEN [id |-> id_list[i],
              latitude |-> table[id_list[i]].latitude,
              longitude |-> table[id_list[i]].longitude,
              altitude |-> table[id_list[i]].altitude]
        ELSE NaNRow(id_list[i])]

\* A variant of feet_to_metres that leaves the altitude in feet.
feet_to_metres_unconverted(altitude) == altitude

\* SCALE_FEET_TO_METRES * altitude (NaN stays NaN).
feet_to_metres(altitude) ==
    IF IsNum(altitude)
    THEN Num((SCALE_FEET_TO_METRES * Val(altitude)) \div SCALE_DENOMINATOR)
    ELSE NaN

\* A variant of get_pos_df_table that catches the exception of the request and
\* goes on with an empty table.
get_pos_df_table_swallowing(id_list, response) ==
    IF Raised(response)
    THEN Return([i \in 1..Len(id_list) |-> NaNRow(id_list[i])])
    ELSE LET reindexed == reindex(response.val, id_list)
         IN  Return([i \in 1..Len(id_list) |->
                        [reindexed[i] EXCEPT !.altitude = feet_to_metres(@)]])

\* get_pos_df from all_positions on: an exception of the request propagates;
\* otherwise reindex and the conversion of the altitude column.
get_pos_df_table(id_list, response) ==
    IF Raised(response)
    THEN response
    ELSE LET reindexed == reindex(response.val, id_list)
         IN  Return([i \in 1..Len(id_list) |->
                        [reindexed[i] EXCEPT !.altitude = feet_to_metres(@)]])

\* pos_df.loc[id]: the row labelled id.
loc(df, id) == df[CHOOSE i \in 1..Len(df) : df[i].id = id /\
                      \A k \in 1..(i - 1) : df[k].id # id]

\* row.isnull().any()
isnull_any(row) == IsNaN(row.latitude) \/ IsNaN(row.longitude) \/ IsNaN(row.altitude)

\* A variant of cell_is_null that looks at the from row only.
cell_is_null_from_only(df, from_id, to_id) ==
    isnull_any(loc(df, from_id))

\* The condition of the comprehension: the cell is np.nan without a call of
\* get_distance iff it holds.
cell_is_null(df, from_id, to_id) ==
    isnull_any(loc(df, from_id)) \/ isnull_any(loc(df, to_id))

\* One cell of the comprehension.
cell(df, from_id, to_id, measure, radius, flattening) ==
    IF ~cell_is_null(df, from_id, to_id)
    THEN get_distance(loc(df, from_id), loc(df, to_id), measure, radius, flattening)
    ELSE Return(NaN)

\* The nested loop, cell by cell in row-major order: k is the number of cells
\* evaluated before the first exception (all of them when none raises).
CellAt(n, rows, cols) == <<((n - 1) \div Len(cols)) + 1, ((n - 1) % Len(cols)) + 1>>

all_distances(df, from_aircraft_id, to_aircraft_id, measure, radius, flattening) ==
    LET rows == from_aircraft_id
        cols == to_aircraft_id
        total == Len(rows) * Len(cols)
        at(n) == cell(df, rows[CellAt(n, rows, cols)[1]], cols[CellAt(n, rows, cols)[2]],
                      measure, radius, flattening)
        failing == {n \in 1..total : Raised(at(n))}
        last == IF failing = {} THEN total
                ELSE CHOOSE n \in failing : \A m \in failing : n <= m
        called == {CellAt(n, rows, cols) : n \in
                     {m \in 1..last :
                        ~cell_is_null(df, rows[CellAt(m, rows, cols)[1]],
                                      cols[CellAt(m, rows, cols)[2]])}}
    IN  [outcome |-> IF failing = {}
                     THEN Return([i \in 1..Len(rows) |->
                                    [j \in 1..Len(cols) |->
                                        at((i - 1) * Len(cols) + j).val]])
                     ELSE at(last),
         called |-> called]

\* A variant of DataFrame with the two label lists exchanged.
DataFrame_labels_exchanged(data, columns, index) ==
    [kind |-> "DataFrame", args |-> <<>>,
     index |-> columns, columns |-> index, data |-> data]

\* pd.DataFrame(all_distances, columns = to_aircraft_id, index = from_aircraft_id)
DataFrame(data, columns, index) ==
    [kind |-> "DataFrame", args |-> <<>>,
     index |-> index, columns |-> columns, data |-> data]

\* ---------------------------------------------------------------- inputs
Measures == {"geodesic", "great_circle", "vertical", "euclidean"}
\* What a caller may pass as measure: the four measures and another string.
MeasureInputs == Measures \cup {"manhattan"}

\* Aircraft ids a caller may name; the empty string is no valid id.
AircraftIds == {"AC1", "AC2"}
IdInputs == AircraftIds \cup {""}
IdLists == UNION {[1..n -> IdInputs] : n \in 0..MaxLen}
FromInputs == {ListArg(l) : l \in IdLists} \cup {StrArg("AC1"), StrArg("")}
ToInputs == FromInputs \cup {NoneArg}

\* (radius, flattening) pairs: the defaults, and one of the two out of range.
Geometries == {<<Num(EARTH_RADIUS), Num(ellipse_flattening)>>,
               <<Num(0), Num(ellipse_flattening)>>,
               <<Num(-1), Num(ellipse_flattening)>>,
               <<Num(EARTH_RADIUS), Num(0)>>}
Radii == {g[1] : g \in Geometries}

\* Coordinates and altitudes (metres) passed to the primitives directly.
LatInputs == {Num(-91), Num(-90), Num(0), Num(90), Num(91)}
LonInputs == {Num(-181), Num(-180), Num(0), Num(180)}
AltInputs == {Num(-1), Num(0), Num(3048)}
Point(lat, lon, alt) == [latitude |-> lat, longitude |-> lon, altitude |-> alt]
NoPoint == Point(NaN, NaN, NaN)
\* Position rows passed to get_distance directly.
PosInputs == {Point(Num(0), Num(0), Num(0)), Point(Num(90), Num(-180), Num(3048)),
              Point(Num(91), Num(0), Num(0)), Point(Num(0), Num(0), Num(-1)),
              NoPoint}

\* The Position Provider: all_positions() returns the table of the aircraft
\* the simulation holds (latitude and longitude in range, altitude >= 0 in
\* feet), or the request raises.
FeetPositions == {Point(Num(0), Num(0), Num(0)),
                  Point(Num(0), Num(90), Num(10000)),
                  Point(Num(90), Num(-180), Num(1250))}
Tables == UNION {[K -> FeetPositions] : K \in SUBSET AircraftIds}
all_positions == {Return(t) : t \in Tables}
                 \cup {Raise("ConnectionError"), Raise("HTTPError")}

\* ----------------------------------------------------------------- state
VARIABLES
    pc,          \* "idle", "fetch" (before all_positions), "compute", "done"
    call,        \* the public function called and its arguments
    from_ids,    \* from_aircraft_id after the coercion
    to_ids,      \* to_aircraft_id after the default and the coercion
    ids,         \* get_pos_df's ids
    all_pos,     \* what all_positions() gave: a table or an exception
    pos_df,      \* get_pos_df's result
    fetches,     \* calls of all_positions() made by the call
    called,      \* the cells (i, j) get_distance was called for
    result       \* what the call returned or raised

vars == <<pc, call, from_ids, to_ids, ids, all_pos, pos_df, fetches, called, result>>

Pending == Return([kind |-> "pending", args |-> <<>>])
NoCall == [fn |-> "", from |-> NoneArg, to |-> NoneArg, measure |-> "",
           radius |-> NaN, flattening |-> NaN, p |-> NoPoint, q |-> NoPoint]

Init ==
    /\ pc = "idle"
    /\ call = NoCall
    /\ from_ids = <<>>
    /\ to_ids = <<>>
    /\ ids = <<>>
    /\ all_pos = Pending
    /\ pos_df = <<>>
    /\ fetches = 0
    /\ called = {}
    /\ result = Pending

\* get_separation, lines 190-196 and get_pos_df, lines 163-166: up to the
\* request to the Position Provider.
GetSeparation(from_aircraft_id, to_aircraft_id, measure, radius, flattening) ==
    /\ pc = "idle"
    /\ call' = [NoCall EXCEPT !.fn = "get_separation", !.from = from_aircraft_id,
                              !.to = to_aircraft_id, !.measure = measure,
                              !.radius = radius, !.flattening = flattening]
    /\ LET a == get_separation_args(from_aircraft_id, to_aircraft_id, measure)
       IN  IF Raised(a)
           THEN /\ pc' = "done"
                /\ result' = a
                /\ UNCHANGED <<from_ids, to_ids, ids>>
           ELSE /\ from_ids' = a.val.from
                /\ to_ids' = a.val.to
                /\ LET i == get_pos_df_ids(a.val.from, a.val.to)
                   IN  IF Raised(i)
                       THEN /\ pc' = "done"
                            /\ result' = i
                            /\ UNCHANGED ids
                       ELSE /\ pc' = "fetch"
                            /\ ids' \in i.val
                            /\ UNCHANGED result
    /\ UNCHANGED <<all_pos, pos_df, fetches, called>>

\* The four wrappers: get_separation with the measure fixed.
GeodesicSeparation(from_aircraft_id, to_aircraft_id, major_semiaxis, flattening) ==
    GetSeparation(from_aircraft_id, to_aircraft_id, "geodesic", major_semiaxis, flattening)

GreatCircleSeparation(from_aircraft_id, to_aircraft_id, radius) ==
    GetSeparation(from_aircraft_id, to_aircraft_id, "great_circle", radius,
                  Num(ellipse_flattening))

VerticalSeparation(from_aircraft_id, to_aircraft_id) ==
    GetSeparation(from_aircraft_id, to_aircraft_id, "vertical", Num(EARTH_RADIUS),
                  Num(ellipse_flattening))

EuclideanSeparation(from_aircraft_id, to_aircraft_id, radius) ==
    GetSeparation(from_aircraft_id, to_aircraft_id, "euclidean", radius,
                  Num(ellipse_flattening))

\* get_pos_df, lines 168-174: the request, reindex, the altitude conversion.
AllPositions ==
    /\ pc = "fetch"
    /\ \E response \in all_positions :
          /\ all_pos' = response
          /\ fetches' = fetches + 1
          /\ LET t == get_pos_df_table(ids, response)
             IN  IF Raised(t)
                 THEN /\ pc' = "done"
                      /\ result' = t
                      /\ UNCHANGED pos_df
                 ELSE /\ pc' = "compute"
                      /\ pos_df' = t.val
                      /\ UNCHANGED result
    /\ UNCHANGED <<call, from_ids, to_ids, ids, called>>

\* get_separation, lines 198-212: the nested loop and the data frame.
ComputeSeparation ==
    /\ pc = "compute"
    /\ LET d == all_distances(pos_df, from_ids, to_ids, call.measure, call.radius,
                              call.flattening)
       IN  /\ called' = d.called
           /\ result' = IF Raised(d.outcome)
                        THEN d.outcome
                        ELSE Return(DataFrame(d.outcome.val, to_ids, from_ids))
    /\ pc' = "done"
    /\ UNCHANGED <<call, from_ids, to_ids, ids, all_pos, pos_df, fetches>>

\* A direct call of a primitive or of get_distance: no request is made.
Direct(fn, p, q, measure, radius, flattening, outcome) ==
    /\ pc = "idle"
    /\ call' = [NoCall EXCEPT !.fn = fn, !.p = p, !.q = q, !.measure = measure,
                              !.radius = radius, !.flattening = flattening]
    /\ result' = outcome
    /\ pc' = "done"
    /\ UNCHANGED <<from_ids, to_ids, ids, all_pos, pos_df, fetches, called>>

GeodesicDistance(from_lat, from_lon, to_lat, to_lon, major_semiaxis, flattening) ==
    Direct("geodesic_distance", Point(from_lat, from_lon, NaN),
           Point(to_lat, to_lon, NaN), "", major_semiaxis, flattening,
           geodesic_distance(from_lat, from_lon, to_lat, to_lon, major_semiaxis,
                             flattening))

GreatCircleDistance(from_lat, from_lon, to_lat, to_lon, radius) ==
    Direct("great_circle_distance", Point(from_lat, from_lon, NaN),
           Point(to_lat, to_lon, NaN), "", radius, NaN,
           great_circle_distance(from_lat, from_lon, to_lat, to_lon, radius))

VerticalDistance(from_alt, to_alt) ==
    Direct("vertical_distance", Point(NaN, NaN, from_alt), Point(NaN, NaN, to_alt),
           "", NaN, NaN, vertical_distance(from_alt, to_alt))

ConvertLatLonToCartesian(lat, lon, alt, radius) ==
    Direct("convert_lat_lon_to_cartesian", Point(lat, lon, alt), NoPoint, "",
           radius, NaN, convert_lat_lon_to_cartesian(lat, lon, alt, radius))

EuclideanDistance(from_lat, from_lon, from_alt, to_lat, to_lon, to_alt, radius) ==
    Direct("euclidean_distance", Point(from_lat, from_lon, from_alt),
           Point(to_lat, to_lon, to_alt), "", radius, NaN,
           euclidean_distance(from_lat, from_lon, from_alt, to_lat, to_lon, to_alt,
                              radius))

GetDistance(from_pos, to_pos, measure, radius, flattening) ==
    Direct("get_distance", from_pos, to_pos, measure, radius, flattening,
           get_distance(from_pos, to_pos, measure, radius, flattening))

\* The call is over; nothing is kept between calls.
Finish ==
    /\ pc = "done"
    /\ pc' = "idle"
    /\ call' = NoCall
    /\ from_ids' = <<>>
    /\ to_ids' = <<>>
    /\ ids' = <<>>
    /\ all_pos' = Pending
    /\ pos_df' = <<>>
    /\ fetches' = 0
    /\ called' = {}
    /\ result' = Pending

\* The calls a client makes, one at a time (the library is synchronous).
CallGetSeparation ==
    /\ pc = "idle"
    /\ \E f \in FromInputs, t \in ToInputs, m \in MeasureInputs, g \in Geometries :
          GetSeparation(f, t, m, g[1], g[2])

CallGeodesicSeparation ==
    /\ pc = "idle"
    /\ \E f \in FromInputs, t \in ToInputs, g \in Geometries :
          GeodesicSeparation(f, t, g[1], g[2])

CallGreatCircleSeparation ==
    /\ pc = "idle"
    /\ \E f \in FromInputs, t \in ToInputs, r \in Radii : GreatCircleSeparation(f, t, r)

CallVerticalSeparation ==
    /\ pc = "idle"
    /\ \E f \in FromInputs, t \in ToInputs : VerticalSeparation(f, t)

CallEuclideanSeparation ==
    /\ pc = "idle"
    /\ \E f \in FromInputs, t \in ToInputs, r \in Radii : EuclideanSeparation(f, t, r)

CallGeodesicDistance ==
    /\ pc = "idle"
    /\ \E a \in LatInputs, b \in LonInputs, c \in LatInputs, d \in LonInputs,
          g \in Geometries : GeodesicDistance(a, b, c, d, g[1], g[2])

CallGreatCircleDistance ==
    /\ pc = "idle"
    /\ \E a \in LatInputs, b \in LonInputs, c \in LatInputs, d \in LonInputs,
          r \in Radii : GreatCircleDistance(a, b, c, d, r)

CallVerticalDistance ==
    /\ pc = "idle"
    /\ \E a \in AltInputs, b \in AltInputs : VerticalDistance(a, b)

CallConvertLatLonToCartesian ==
    /\ pc = "idle"
    /\ \E a \in LatInputs, b \in LonInputs, h \in AltInputs, r \in Radii :
          ConvertLatLonToCartesian(a, b, h, r)

CallEuclideanDistance ==
    /\ pc = "idle"
    /\ \E a \in LatInputs, b \in LonInputs, h \in AltInputs,
          c \in LatInputs, d \in LonInputs, k \in AltInputs, r \in Radii :
          EuclideanDistance(a, b, h, c, d, k, r)

CallGetDistance ==
    /\ pc = "idle"
    /\ \E p \in PosInputs, q \in PosInputs, m \in MeasureInputs, g \in Geometries :
          GetDistance(p, q, m, g[1], g[2])

Next ==
    \/ CallGetSeparation
    \/ CallGeodesicSeparation
    \/ CallGreatCircleSeparation
    \/ CallVerticalSeparation
    \/ CallEuclideanSeparation
    \/ AllPositions
    \/ ComputeSeparation
    \/ CallGeodesicDistance
    \/ CallGreatCircleDistance
    \/ CallVerticalDistance
    \/ CallConvertLatLonToCartesian
    \/ CallEuclideanDistance
    \/ CallGetDistance
    \/ Finish

Spec == Init /\ [][Next]_vars

\* ---------------------------------------------------------------- claims
SeparationCall == call.fn = "get_separation"
Done == pc = "done"
\* The id lists the caller asked for, read off the arguments.
ArgFrom == call.from.val
ArgTo == IF call.to.tag = "None" THEN call.from.val ELSE call.to.val
FetchedOk == fetches = 1 /\ ~Raised(all_pos)
Known(id) == id \in DOMAIN all_pos.val
IsDataFrame == Done /\ ~Raised(result) /\ result.val.kind = "DataFrame"
ValidGeometry == validate_is_positive(call.radius, "radius")
                 /\ validate_is_positive(call.flattening, "flattening")
\* The position of a known aircraft in metres, from the provider's table.
MetrePos(id) ==
    Point(all_pos.val[id].latitude, all_pos.val[id].longitude,
          Num((SCALE_FEET_TO_METRES * Val(all_pos.val[id].altitude))
              \div SCALE_DENOMINATOR))
Feet(id) == Val(all_pos.val[id].altitude)

\* An invalid measure, id list, radius or flattening.
InvalidSeparationInput ==
    /\ SeparationCall
    /\ ~(call.from.tag = "str" /\ call.to.tag = "None")
    /\ \/ call.measure \notin Measures
       \/ ~validate_id_list(ArgFrom)
       \/ ~validate_id_list(ArgTo)
       \/ ~ValidGeometry

\* C1: a get_separation call with an invalid input (measure, id list, radius
\* or flattening) fails with the validation error and makes no request to the
\* Position Provider; no validation error follows a request.  (A scalar
\* from_aircraft_id with to_aircraft_id omitted is left out: see C4.)
C1_ValidationBeforeFetch ==
    /\ (Done /\ InvalidSeparationInput)
          => (result.err = "AssertionError" /\ fetches = 0)
    /\ (Done /\ SeparationCall /\ result.err = "AssertionError") => fetches = 0

\* Some requested id is missing from the provider's table.
SomeUnknown == \E id \in Range(ArgFrom) \cup Range(ArgTo) : ~Known(id)

\* C2: when a requested id is unknown to the Position Provider, every cell of
\* the returned matrix in its row or column is NaN, get_distance is not called
\* for such a cell, and the call (its other inputs valid) returns the matrix.
C2_UnknownIdGivesNaN ==
    (Done /\ SeparationCall /\ FetchedOk /\ SomeUnknown) =>
        /\ ValidGeometry => IsDataFrame
        /\ IsDataFrame =>
              \A i \in 1..Len(ArgFrom), j \in 1..Len(ArgTo) :
                 (~Known(ArgFrom[i]) \/ ~Known(ArgTo[j])) =>
                     /\ result.val.data[i][j] = NaN
                     /\ <<i, j>> \notin called
\* Witness of C2: a returned matrix with a known row id, an unknown column id and a computed cell.
C2_Witness ==
    /\ IsDataFrame /\ SeparationCall /\ FetchedOk /\ SomeUnknown
    /\ \E i \in 1..Len(ArgFrom), j \in 1..Len(ArgTo) :
          /\ Known(ArgFrom[i]) /\ ~Known(ArgTo[j])
          /\ result.val.data[i][j] = NaN
    /\ \E i \in 1..Len(ArgFrom), j \in 1..Len(ArgTo) : <<i, j>> \in called

\* The distance between the positions of a and b, NaN when one is unknown.
ExpectedCell(a, b) ==
    IF Known(a) /\ Known(b)
    THEN get_distance(MetrePos(a), MetrePos(b), call.measure, call.radius,
                      call.flattening).val
    ELSE NaN

\* C3: the returned matrix has one row per element of from_aircraft_id and one
\* column per element of to_aircraft_id, labelled in the order given and not
\* deduplicated, and cell (i, j) is the distance between the positions of the
\* i-th from id and the j-th to id.
C3_MatrixShapeAndLabels ==
    (IsDataFrame /\ SeparationCall) =>
        /\ result.val.index = ArgFrom
        /\ result.val.columns = ArgTo
        /\ Len(result.val.data) = Len(ArgFrom)
        /\ \A i \in 1..Len(ArgFrom) :
              /\ Len(result.val.data[i]) = Len(ArgTo)
              /\ \A j \in 1..Len(ArgTo) :
                    result.val.data[i][j] = ExpectedCell(ArgFrom[i], ArgTo[j])
\* Witness of C3: a returned 2x2 matrix whose from list repeats one id and whose to list differs from it.
C3_Witness ==
    /\ IsDataFrame /\ SeparationCall
    /\ Len(ArgFrom) = 2 /\ ArgFrom[1] = ArgFrom[2]
    /\ Len(ArgTo) = 2 /\ ArgTo[1] # ArgTo[2] /\ ArgTo[1] # ArgFrom[1]
    /\ result.val.data[1][1] # NaN /\ result.val.data[1][1] # result.val.data[1][2]
    /\ result.val.data[2] = result.val.data[1]

\* C4: with to_aircraft_id omitted the result is the self-separation matrix of
\* from_aircraft_id, a scalar id standing for the one-element list: a scalar
\* from_aircraft_id with to_aircraft_id omitted gives a 1x1 matrix.
C4_DefaultToAndScalar ==
    (Done /\ SeparationCall /\ call.to.tag = "None" /\ call.measure \in Measures
       /\ validate_id_list(ArgFrom) /\ ValidGeometry /\ ~Raised(all_pos)) =>
        /\ IsDataFrame
        /\ result.val.index = ArgFrom
        /\ result.val.columns = ArgFrom
        /\ call.from.tag = "str" =>
              Len(result.val.data) = 1 /\ Len(result.val.data[1]) = 1

\* C5: get_distance with an unrecognized measure raises the validation error;
\* it returns nothing.
C5_UnknownMeasureRaises ==
    (Done /\ call.fn = "get_distance" /\ call.measure \notin Measures) =>
        result.err = "AssertionError"

\* C6: a call makes at most one request to the Position Provider, and the
\* position table holds exactly the ids of the two lists, each once.
C6_OneFetchDedupUnion ==
    /\ fetches <= 1
    /\ (pc \in {"compute", "done"} /\ SeparationCall /\ FetchedOk) =>
          /\ {pos_df[i].id : i \in 1..Len(pos_df)} = Range(ArgFrom) \cup Range(ArgTo)
          /\ \A i, j \in 1..Len(pos_df) : pos_df[i].id = pos_df[j].id => i = j
\* Witness of C6: a table built for lists that share an id, one of them repeating it.
C6_Witness ==
    /\ pc = "compute" /\ FetchedOk
    /\ Len(ArgFrom) = 2 /\ ArgFrom[1] = ArgFrom[2]
    /\ Len(ArgTo) = 2 /\ ArgTo[1] = ArgFrom[1] /\ ArgTo[2] # ArgFrom[1]
    /\ Len(pos_df) = 2

\* C7: when the request to the Position Provider fails, the call ends with
\* that error, after the one request, with no distance computed and no matrix.
C7_FetchFailurePropagates ==
    Raised(all_pos) =>
        /\ pc = "done"
        /\ result = all_pos
        /\ fetches = 1
        /\ called = {}
        /\ pos_df = <<>>
\* Witness of C7: a call of two ids ended by the HTTP error of its one request.
C7_Witness ==
    /\ Done /\ SeparationCall /\ fetches = 1
    /\ all_pos.err = "HTTPError" /\ result.err = "HTTPError"
    /\ Len(ArgFrom) = 2

\* C8: for a list of ids that all exist, to_aircraft_id omitted and measure
\* 'vertical', the result is a square, symmetric matrix with a zero diagonal.
C8_VerticalSymmetricZeroDiagonal ==
    (Done /\ SeparationCall /\ call.measure = "vertical" /\ call.from.tag = "list"
       /\ call.to.tag = "None" /\ FetchedOk /\ \A id \in Range(ArgFrom) : Known(id)) =>
        /\ IsDataFrame
        /\ Len(result.val.data) = Len(ArgFrom)
        /\ \A i \in 1..Len(ArgFrom) :
              /\ Len(result.val.data[i]) = Len(ArgFrom)
              /\ result.val.data[i][i] = Num(0)
              /\ \A j \in 1..Len(ArgFrom) :
                    result.val.data[i][j] = result.val.data[j][i]
\* Witness of C8: a returned self-separation matrix of two aircraft, one at altitude 0.
C8_Witness ==
    /\ IsDataFrame /\ SeparationCall /\ call.measure = "vertical"
    /\ call.from.tag = "list" /\ call.to.tag = "None" /\ FetchedOk
    /\ Len(ArgFrom) = 2 /\ Known(ArgFrom[1]) /\ Known(ArgFrom[2])
    /\ Feet(ArgFrom[1]) = 0 /\ Feet(ArgFrom[2]) > 0
    /\ result.val.data[1][2] # Num(0)

\* C9: the altitude of every known aircraft is its reported feet times 0.3048,
\* latitude and longitude are as reported, and the vertical separation of two
\* known aircraft at a and b feet is 0.3048 * |a - b| metres.
C9_FeetToMetresOnce ==
    /\ (pc \in {"compute", "done"} /\ SeparationCall /\ FetchedOk) =>
          \A i \in 1..Len(pos_df) :
             Known(pos_df[i].id) =>
                /\ pos_df[i].latitude = all_pos.val[pos_df[i].id].latitude
                /\ pos_df[i].longitude = all_pos.val[pos_df[i].id].longitude
                /\ IsNum(pos_df[i].altitude)
                /\ Val(pos_df[i].altitude) * SCALE_DENOMINATOR
                      = SCALE_FEET_TO_METRES * Feet(pos_df[i].id)
    /\ (IsDataFrame /\ SeparationCall /\ call.measure = "vertical") =>
          \A i \in 1..Len(ArgFrom), j \in 1..Len(ArgTo) :
             (Known(ArgFrom[i]) /\ Known(ArgTo[j])) =>
                /\ IsNum(result.val.data[i][j])
                /\ Val(result.val.data[i][j]) * SCALE_DENOMINATOR
                      = SCALE_FEET_TO_METRES * Abs(Feet(ArgFrom[i]) - Feet(ArgTo[j]))
\* Witness of C9: aircraft at 10000 and 0 feet, one id in both lists, separated by 3048 metres.
C9_Witness ==
    /\ IsDataFrame /\ SeparationCall /\ call.measure = "vertical" /\ FetchedOk
    /\ Len(ArgFrom) = 2 /\ Len(ArgTo) = 2 /\ ArgFrom[1] = ArgTo[2]
    /\ Known(ArgFrom[1]) /\ Known(ArgTo[1])
    /\ Feet(ArgFrom[1]) = 10000 /\ Feet(ArgTo[1]) = 0
    /\ result.val.data[1][1] = Num(3048)

\* The primitives that take a latitude, and the out-of-range coordinates.
LatitudeConsumers == {"geodesic_distance", "great_circle_distance",
                      "euclidean_distance", "convert_lat_lon_to_cartesian"}
BadLatitude(x) == IsNum(x) /\ (Val(x) < -90 \/ Val(x) > 90)
BadLongitude(x) == IsNum(x) /\ (Val(x) < -180 \/ Val(x) >= 180)

\* C10: geodesic_distance, great_circle_distance, euclidean_distance and
\* convert_lat_lon_to_cartesian raise the validation error for a latitude
\* outside [-90, 90] or a longitude outside [-180, 180), of either point, and
\* accept latitudes -90 and 90 and longitude -180.
C10_InvalidLatitudeRaises ==
    (Done /\ call.fn \in LatitudeConsumers) =>
        /\ (BadLatitude(call.p.latitude) \/ BadLatitude(call.q.latitude))
              => result.err = "AssertionError"
        /\ (BadLongitude(call.p.longitude) \/ BadLongitude(call.q.longitude))
              => result.err = "AssertionError"
        /\ (/\ call.p.latitude \in {Num(-90), Num(90)}
            /\ call.p.longitude = Num(-180)
            /\ call.q.latitude \in {Num(-90), Num(90), NaN}
            /\ call.q.longitude \in {Num(-180), NaN}
            /\ call.p.altitude \in {Num(0), NaN} /\ call.q.altitude \in {Num(0), NaN}
            /\ call.radius = Num(EARTH_RADIUS)
            /\ call.flattening \in {Num(ellipse_flattening), NaN})
              => ~Raised(result)

====
